---- MODULE Spec2Model ----
(***************************************************************************)
(* dealmail: the four command pipelines (get-emails, get-image, extract,   *)
(* archive) as one state machine.  A behaviour is one run of one command   *)
(* in one of the drafts kept in the repository: the command line, the      *)
(* remote mailbox and the files on disk are chosen in Init, the cmd-ts     *)
(* argument parser runs first, then every stage of the handler is one      *)
(* action whose external call (JMAP request, file operation, browser step, *)
(* Gemini call) either returns or fails.                                   *)
(***************************************************************************)
EXTENDS Integers, Sequences, FiniteSets, TLC

VARIABLES
  cmd,        \* the subcommand that is run
  variant,    \* which draft of the command's source file is run
  args,       \* the command line: one field per option
  mailboxes,  \* remote: the Mailbox/get list, in the order the server returns it
  store,      \* remote: ids of the messages that exist (in the inbox)
  moved,      \* remote: ids the server has moved from inbox to archive
  sidecar,    \* disk: content of each JSON sidecar path
  outFiles,   \* disk: names of the files written by this run, in write order
  pc,         \* position of the handler in its pipeline
  log,        \* every external operation issued so far, in order
  err,        \* the error carried in the Left of the pipeline
  exitCode,   \* process exit code; NoExit while the run is in progress
  count,      \* the success counter threaded through the reduce
  idx,        \* index of the item the per-item loop is at
  loc,        \* handler locals: mailboxes found, the item list, data read
  resp,       \* the last JMAP response the handler looked at
  ret,        \* what the last per-item function returned
  br          \* browser of the current render invocation

vars == <<cmd, variant, args, mailboxes, store, moved, sidecar, outFiles,
          pc, log, err, exitCode, count, idx, loc, resp, ret, br>>

----------------------------------------------------------------------------
(* Bounds *)

MaxIds == 2        \* longest --id list of an archive run
MaxBoxes == 2      \* longest Mailbox/get list
MaxMsgs == 3       \* most messages the inbox of a get-emails run holds
MaxPairs == 2      \* longest --image and --file lists of an extract run
MaxInputs == 2     \* longest list of sidecar paths of a get-image run

NoExit == 0 - 1

----------------------------------------------------------------------------
(* Strings as character sequences, so that trim() is computed *)

Blank == <<" ">>
Empty == <<>>

IsSpace(c) == c = " "

RECURSIVE TrimLeft(_)
TrimLeft(s) ==
  IF s = <<>> THEN <<>>
  ELSE IF IsSpace(Head(s)) THEN TrimLeft(Tail(s)) ELSE s

RECURSIVE TrimRight(_)
TrimRight(s) ==
  IF s = <<>> THEN <<>>
  ELSE IF IsSpace(s[Len(s)]) THEN TrimRight(SubSeq(s, 1, Len(s) - 1)) ELSE s

Trim(s) == TrimRight(TrimLeft(s))

Digits == <<"0", "1", "2", "3", "4", "5", "6", "7", "8", "9">>
IsDigit(c) == \E d \in 1..10 : Digits[d] = c
DigitVal(c) == (CHOOSE d \in 1..10 : Digits[d] = c) - 1
\* String(n) for the small counters of the model
NumStr(n) == IF n < 10 THEN <<Digits[n + 1]>>
             ELSE <<Digits[(n \div 10) + 1], Digits[(n % 10) + 1]>>

Str(s) == [i \in 1..Len(s) |-> s[i]]

\* An option that may be missing from the command line and the environment:
\* <<>> when missing, <<value>> when given.
Missing == <<>>
Given(v) == <<v>>
IsGiven(o) == o # <<>>

----------------------------------------------------------------------------
(* Errors, log entries *)

NoError == [class |-> "none", msg |-> "none", ids |-> <<>>]
Error(c, m) == [class |-> c, msg |-> m, ids |-> <<>>]
ErrorIds(c, m, i) == [class |-> c, msg |-> m, ids |-> i]

LimitOmitted == [kind |-> "omitted", n |-> 0]
LimitNumber(n) == [kind |-> "number", n |-> n]
LimitInfinity == [kind |-> "Infinity", n |-> 0]

Entry(op, a) == [op |-> op, args |-> a, limit |-> LimitOmitted]
EntryLimit(op, a, l) == [op |-> op, args |-> a, limit |-> l]

RemoteOps == {"getPrimaryAccount", "Mailbox/get", "Email/query", "Email/get",
              "Email/set", "generateContent"}
FileReadOps == {"readFile"}
FileWriteOps == {"writeFile", "mkdir", "screenshot"}
FileProbeOps == {"access", "stat"}
BrowserOps == {"launch", "newPage", "setContent", "setViewport", "screenshot",
               "close"}

OpsOf(l, kinds) == SelectSeq(l, LAMBDA e : e.op \in kinds)

NoBrowser == [launched |-> FALSE, open |-> FALSE, closeCalls |-> 0,
              captured |-> FALSE]

NoLoc == [inbox |-> <<>>, archive |-> <<>>, boxes |-> <<>>, items |-> <<>>,
          data |-> <<>>, deal |-> <<>>, html |-> <<>>, out |-> <<>>,
          swallowed |-> 0, inflight |-> 0, outDir |-> "dir",
          limit |-> [kind |-> "omitted", n |-> 0]]

NoResp == [op |-> "none", transport |-> FALSE, notFound |-> <<>>,
           updated |-> FALSE, notUpdated |-> FALSE, ids |-> <<>>]

Terminal == pc \in {"Completed", "Failed", "ParseFailed"}

\* a handler whose Left would leave the pipeline where it is
FailAndStay(e) == /\ pc' = pc
                  /\ err' = e
                  /\ exitCode' = exitCode

\* TE.match in every handler: Left -> exit code 1, Right -> exit code 0
Fail(e) == /\ pc' = "Failed"
           /\ err' = e
           /\ exitCode' = 1

Complete == /\ pc' = "Completed"
            /\ exitCode' = 0
            /\ err' = err

\* cmd-ts run(): a parser error is printed and the process exits with 1
ParseFail(e) == /\ pc' = "ParseFailed"
                /\ err' = e
                /\ exitCode' = 1

----------------------------------------------------------------------------
(* Shared validation *)

validateRequired(value) == ~(value = <<>> \/ Trim(value) = <<>>)

\* cmd-ts option(): no value on the command line, none in the env variable
\* and no defaultValue is a parse error; otherwise type.from(value) decides
RequiredOk(o) == IsGiven(o) /\ validateRequired(o[1])

----------------------------------------------------------------------------
(* JMAP: mailbox lookup *)

RECURSIVE FindFirst(_, _)
FindFirst(boxes, role) ==
  IF boxes = <<>> THEN <<>>
  ELSE IF Head(boxes).role = role THEN <<Head(boxes)>>
  ELSE FindFirst(Tail(boxes), role)

\* a lookup that keeps the last mailbox of the role
findMailboxByRoleLast(boxes, role) ==
  LET m == SelectSeq(boxes, LAMBDA b : b.role = role) IN
  IF m = <<>> THEN <<>> ELSE <<m[Len(m)]>>

findMailboxByRole(boxes, role) == FindFirst(boxes, role)

----------------------------------------------------------------------------
(* The per-item loops: emails.reduce / pairs.reduce / inputPaths.reduce *)

LoopStart ==
  CASE cmd = "archive" -> "archiveEmail"
    [] cmd = "extract" -> "readJsonFile"
    [] cmd = "get-emails" -> IF variant = "png" THEN "launch" ELSE "saveEmailToFile"
    [] cmd = "get-image" -> "readEmailFile"

\* a reduce without any TE.orElse
StopsOnItemError == FALSE

\* only this draft of get-image has the TE.orElse that swallows the Left
ContinuesOnItemError == cmd = "get-image" /\ variant = "input"

\* the item returned a Right that counts as a success
\* a loop step that never hands the count to TE.match
ItemCountedNoEnd ==
  /\ count' = count + 1
  /\ idx' = idx + 1
  /\ pc' = LoopStart /\ UNCHANGED <<err, exitCode>>

ItemCounted ==
  /\ count' = count + 1
  /\ idx' = idx + 1
  /\ IF idx = Len(loc.items) THEN Complete
     ELSE pc' = LoopStart /\ UNCHANGED <<err, exitCode>>

\* the item returned a Left: swallowed by the TE.orElse of the loop, or
\* carried to TE.match
ItemFailed(e, l) ==
  IF ContinuesOnItemError
    THEN /\ count' = count
         /\ idx' = idx + 1
         /\ loc' = [l EXCEPT !.swallowed = @ + 1]
         /\ err' = NoError
         /\ IF idx = Len(loc.items)
              THEN pc' = "Completed" /\ exitCode' = 0
              ELSE pc' = LoopStart /\ exitCode' = exitCode
    ELSE /\ Fail(e)
         /\ loc' = l
         /\ UNCHANGED <<count, idx>>

----------------------------------------------------------------------------
(* archive: archive.ts (part_001 is the same handler over ../jmap.js) *)

\* EmailIds.from
EmailIdsError(ids) ==
  IF Len(ids) = 0 THEN Error("ArchiveError", "At least one email ID is required")
  ELSE IF \E i \in 1..Len(ids) : Trim(ids[i]) = <<>>
       THEN Error("ArchiveError", "Email ID cannot be empty")
  ELSE NoError

\* RequiredUsername / RequiredToken under option({env})
CredentialError(o, flag, field) ==
  IF ~IsGiven(o) THEN Error("cmd-ts", flag)
  ELSE IF ~validateRequired(o[1]) THEN Error("ApiError", field)
  ELSE NoError

FirstError(es) ==
  LET bad == SelectSeq(es, LAMBDA e : e # NoError) IN
  IF bad = <<>> THEN NoError ELSE Head(bad)

ArchiveParse ==
  /\ cmd = "archive" /\ pc = "cli"
  /\ LET e == FirstError(<<
            CredentialError(args.username, "No value provided for --username",
                            "Username is required"),
            CredentialError(args.password, "No value provided for --password",
                            "Password/token is required"),
            EmailIdsError(args.ids) >>) IN
     IF e # NoError THEN ParseFail(e)
     ELSE pc' = "initializeJamClient" /\ UNCHANGED <<err, exitCode>>
  /\ UNCHANGED <<cmd, variant, args, mailboxes, store, moved, sidecar,
                 outFiles, log, count, idx, loc, resp, ret, br>>

\* initializeJamClient: builds the client object, no request is sent
InitializeJamClient ==
  /\ cmd \in {"archive", "get-emails"} /\ pc = "initializeJamClient"
  /\ \/ pc' = "getAccountId" /\ UNCHANGED <<err, exitCode>>
     \/ Fail(Error("ApiError", "Failed to initialize JMAP client"))
  /\ UNCHANGED <<cmd, variant, args, mailboxes, store, moved, sidecar,
                 outFiles, log, count, idx, loc, resp, ret, br>>

GetAccountId ==
  /\ cmd \in {"archive", "get-emails"} /\ pc = "getAccountId"
  /\ log' = Append(log, Entry("getPrimaryAccount", <<>>))
  /\ \/ pc' = "getMailboxes" /\ UNCHANGED <<err, exitCode>>
     \/ Fail(Error("ApiError", "Failed to get account ID"))
  /\ UNCHANGED <<cmd, variant, args, mailboxes, store, moved, sidecar,
                 outFiles, count, idx, loc, resp, ret, br>>

GetMailboxes ==
  /\ cmd \in {"archive", "get-emails"} /\ pc = "getMailboxes"
  /\ log' = Append(log, Entry("Mailbox/get", <<>>))
  /\ \/ /\ pc' = "findInbox"
        /\ loc' = [loc EXCEPT !.boxes = mailboxes]
        /\ UNCHANGED <<err, exitCode>>
     \/ /\ Fail(Error("ApiError", "Failed to fetch mailboxes"))
        /\ loc' = loc
  /\ UNCHANGED <<cmd, variant, args, mailboxes, store, moved, sidecar,
                 outFiles, count, idx, resp, ret, br>>

\* findInboxMailbox / findInbox / findMailboxByRole(mailboxes, "inbox")
FindInbox ==
  /\ cmd \in {"archive", "get-emails"} /\ pc = "findInbox"
  /\ LET found == findMailboxByRole(loc.boxes, "inbox") IN
     IF found = <<>>
       THEN Fail(Error("ApiError", "Could not find inbox folder")) /\ loc' = loc
       ELSE /\ pc' = IF cmd = "archive" THEN "findArchive" ELSE "getEmails"
            /\ loc' = [loc EXCEPT !.inbox = found]
            /\ UNCHANGED <<err, exitCode>>
  /\ UNCHANGED <<cmd, variant, args, mailboxes, store, moved, sidecar,
                 outFiles, log, count, idx, resp, ret, br>>

FindArchive ==
  /\ cmd = "archive" /\ pc = "findArchive"
  /\ LET found == findMailboxByRole(loc.boxes, "archive") IN
     IF found = <<>>
       THEN Fail(Error("ApiError", "Could not find archive folder")) /\ loc' = loc
       ELSE /\ pc' = "verifyEmails"
            /\ loc' = [loc EXCEPT !.archive = found]
            /\ UNCHANGED <<err, exitCode>>
  /\ UNCHANGED <<cmd, variant, args, mailboxes, store, moved, sidecar,
                 outFiles, log, count, idx, resp, ret, br>>

\* The server's Email/get answer: the requested ids it does not hold
NotFoundOf(ids) == SelectSeq(ids, LAMBDA i : i \notin store)

\* a verifyEmails that does not look at notFound
verifyEmailsUnchecked(emailIds, notFound) ==
  [ok |-> TRUE, ids |-> emailIds, error |-> NoError]

\* a verifyEmails that reports every requested id as not found
verifyEmailsAllIds(emailIds, notFound) ==
  IF Len(notFound) > 0
    THEN [ok |-> FALSE, ids |-> <<>>,
          error |-> ErrorIds("ApiError", "Some emails were not found", emailIds)]
    ELSE [ok |-> TRUE, ids |-> emailIds, error |-> NoError]

\* verifyEmails, the TE.chain over the response
verifyEmailsResult(emailIds, notFound) ==
  IF Len(notFound) > 0
    THEN [ok |-> FALSE, ids |-> <<>>,
          error |-> ErrorIds("ApiError", "Some emails were not found", notFound)]
    ELSE [ok |-> TRUE, ids |-> emailIds, error |-> NoError]

VerifyEmails ==
  /\ cmd = "archive" /\ pc = "verifyEmails"
  /\ log' = Append(log, Entry("Email/get", args.ids))
  /\ \/ /\ Fail(Error("ApiError", "Failed to verify emails"))
        /\ resp' = [NoResp EXCEPT !.op = "Email/get", !.transport = TRUE]
        /\ UNCHANGED <<loc, idx, count>>
     \/ LET r == verifyEmailsResult(args.ids, NotFoundOf(args.ids)) IN
        /\ resp' = [NoResp EXCEPT !.op = "Email/get",
                                  !.notFound = NotFoundOf(args.ids)]
        /\ IF r.ok
             \* archiveEmails(verifiedIds): reduce from TE.right(0)
             THEN /\ loc' = [loc EXCEPT !.items = r.ids]
                  /\ idx' = 1
                  /\ count' = 0
                  /\ IF Len(r.ids) = 0 THEN Complete
                     ELSE pc' = "archiveEmail" /\ UNCHANGED <<err, exitCode>>
             ELSE Fail(r.error) /\ UNCHANGED <<loc, idx, count>>
  /\ UNCHANGED <<cmd, variant, args, mailboxes, store, moved, sidecar,
                 outFiles, ret, br>>

\* an archiveEmail that takes every answer for a move
archiveEmailAlwaysTrue(inUpdated, inNotUpdated) == "true"

\* an archiveEmail that treats a notUpdated entry as a no-op
archiveEmailNoError(inUpdated, inNotUpdated) ==
  IF inUpdated THEN "true" ELSE "false"

\* archiveEmail, the TE.chain over the Email/set response:
\* "true" / "false" / "error"
archiveEmailResult(inUpdated, inNotUpdated) ==
  IF inUpdated THEN "true"
  ELSE IF inNotUpdated THEN "error"
  ELSE "false"

\* an update that only takes the message out of the inbox
updateRemoveOnly(emailId, inboxId, archiveId) == <<emailId, inboxId, <<>>>>

\* update: {[emailId]: {mailboxIds: {[inboxId]: null, [archiveId]: true}}}
updateOf(emailId, inboxId, archiveId) == <<emailId, inboxId, archiveId>>

\* one step of the reduce in archiveEmails
ArchiveEmail ==
  /\ cmd = "archive" /\ pc = "archiveEmail"
  /\ idx <= Len(loc.items)
  /\ LET emailId == loc.items[idx] IN
     /\ log' = Append(log, Entry("Email/set",
                  updateOf(emailId, loc.inbox[1].id, loc.archive[1].id)))
     /\ \/ /\ Fail(Error("ApiError", "Failed to archive email"))
           /\ resp' = [NoResp EXCEPT !.op = "Email/set", !.transport = TRUE,
                                     !.ids = <<emailId>>]
           /\ ret' = "error"
           /\ UNCHANGED <<count, idx, moved>>
        \* RFC 8620: an id is in updated, in notUpdated, or in neither
        \/ \E inUpdated \in BOOLEAN, inNotUpdated \in BOOLEAN :
             LET r == archiveEmailResult(inUpdated, inNotUpdated) IN
             /\ ~(inUpdated /\ inNotUpdated)
             /\ moved' = IF inUpdated THEN moved \cup {emailId} ELSE moved
             /\ resp' = [NoResp EXCEPT !.op = "Email/set", !.ids = <<emailId>>,
                           !.updated = inUpdated, !.notUpdated = inNotUpdated]
             /\ ret' = r
             /\ IF r = "error"
                  THEN /\ Fail(ErrorIds("ApiError", "Failed to archive email",
                                        <<emailId>>))
                       /\ UNCHANGED <<count, idx>>
                  ELSE /\ count' = IF r = "true" THEN count + 1 ELSE count
                       /\ idx' = idx + 1
                       /\ IF idx = Len(loc.items) THEN Complete
                          ELSE pc' = pc /\ UNCHANGED <<err, exitCode>>
  /\ UNCHANGED <<cmd, variant, args, mailboxes, store, sidecar, outFiles,
                 loc, br>>

----------------------------------------------------------------------------
(* Output directory option: OutputDirectory.from / ExistingPath.from *)

\* createDirectoryIfNotExists as written in get-emails.ts, filesystem.ts,
\* part_002, part_003 and part_004: access, then stat, and mkdir in the
\* TE.orElse of either failing.  kind is what the path is on disk.
createDirectoryIfNotExists(kind, mkdirOk) ==
  IF kind = "dir"
    THEN [ok |-> TRUE, after |-> "dir", error |-> NoError,
          ops |-> <<Entry("access", <<>>), Entry("stat", <<>>)>>]
  ELSE IF kind = "missing"
    THEN [ok |-> mkdirOk, after |-> IF mkdirOk THEN "dir" ELSE "missing",
          error |-> IF mkdirOk THEN NoError
                    ELSE Error("DirectoryCreationFailedError",
                               "Failed to create directory"),
          ops |-> <<Entry("access", <<>>), Entry("mkdir", <<>>)>>]
  \* a regular file: NotADirectoryError is replaced by the orElse, and
  \* mkdir on an existing file is rejected by the file system
  ELSE [ok |-> FALSE, after |-> kind,
        error |-> Error("DirectoryCreationFailedError",
                        "Failed to create directory"),
        ops |-> <<Entry("access", <<>>), Entry("stat", <<>>),
                  Entry("mkdir", <<>>)>>]

\* the older get-image draft calls mkdir({recursive: true}) directly
createDirectoryRecursive(kind, mkdirOk) ==
  IF kind = "dir"
    THEN [ok |-> TRUE, after |-> "dir", error |-> NoError,
          ops |-> <<Entry("mkdir", <<>>)>>]
  ELSE IF kind = "missing"
    THEN [ok |-> mkdirOk, after |-> IF mkdirOk THEN "dir" ELSE "missing",
          error |-> IF mkdirOk THEN NoError
                    ELSE Error("OutputDirError", "Failed to access output directory"),
          ops |-> <<Entry("mkdir", <<>>)>>]
  ELSE [ok |-> FALSE, after |-> kind,
        error |-> Error("OutputDirError", "Failed to access output directory"),
        ops |-> <<Entry("mkdir", <<>>)>>]

\* ExistingPath.from of the first get-emails draft: existsSync only
existingPath(kind) ==
  IF kind = "missing"
    THEN [ok |-> FALSE, after |-> kind, error |-> Error("Error", "Path doesn't exist"),
          ops |-> <<Entry("access", <<>>)>>]
    ELSE [ok |-> TRUE, after |-> kind, error |-> NoError,
          ops |-> <<Entry("access", <<>>)>>]

OutputDirectoryFrom(kind, mkdirOk) ==
  IF cmd = "get-emails" /\ variant = "imperative" THEN existingPath(kind)
  ELSE IF cmd = "get-image" /\ variant = "file"
    THEN createDirectoryRecursive(kind, mkdirOk)
  ELSE createDirectoryIfNotExists(kind, mkdirOk)

----------------------------------------------------------------------------
(* get-emails: limit option *)

DefaultLimit == 100

Lower(c) ==
  LET UpperLetters ==
        <<"A", "B", "C", "D", "E", "F", "G", "H", "I", "J", "K", "L", "M", "N",
          "O", "P", "Q", "R", "S", "T", "U", "V", "W", "X", "Y", "Z">>
      LowerLetters ==
        <<"a", "b", "c", "d", "e", "f", "g", "h", "i", "j", "k", "l", "m", "n",
          "o", "p", "q", "r", "s", "t", "u", "v", "w", "x", "y", "z">>
  IN
  IF \E i \in 1..Len(UpperLetters) : UpperLetters[i] = c
    THEN LowerLetters[CHOOSE i \in 1..Len(UpperLetters) : UpperLetters[i] = c]
    ELSE c
toLowerCase(s) == [i \in 1..Len(s) |-> Lower(s[i])]

RECURSIVE ParseDigits(_, _, _)
ParseDigits(s, acc, seen) ==
  IF s = <<>> \/ ~IsDigit(Head(s)) THEN [nan |-> ~seen, val |-> acc]
  ELSE ParseDigits(Tail(s), acc * 10 + DigitVal(Head(s)), TRUE)

\* Number.parseInt(s, 10): leading blanks, a sign, then the digit prefix
parseInt(s) ==
  LET t == TrimLeft(s) IN
  IF t # <<>> /\ Head(t) = "-"
    THEN LET r == ParseDigits(Tail(t), 0, FALSE) IN
         [nan |-> r.nan, val |-> 0 - r.val]
  ELSE IF t # <<>> /\ Head(t) = "+" THEN ParseDigits(Tail(t), 0, FALSE)
  ELSE ParseDigits(t, 0, FALSE)

\* parseEmailLimit / EmailLimitType.from: the number handed to the handler
parseEmailLimit(limitStr) ==
  IF toLowerCase(limitStr) = Str(<<"a", "l", "l">>)
    THEN [ok |-> TRUE, limit |-> LimitInfinity]
  ELSE LET r == parseInt(limitStr) IN
       IF r.nan \/ r.val <= 0
         THEN [ok |-> FALSE, limit |-> LimitOmitted]
         ELSE [ok |-> TRUE, limit |-> LimitNumber(r.val)]

\* option({type: EmailLimitType, defaultValue: () => 100})
LimitOption(o) ==
  IF ~IsGiven(o) THEN [ok |-> TRUE, limit |-> LimitNumber(DefaultLimit)]
  ELSE parseEmailLimit(o[1])

LimitError(o) ==
  IF LimitOption(o).ok THEN NoError
  ELSE Error(IF variant \in {"json", "standalone"} THEN "ApiError" ELSE "Error",
             "Invalid limit")

\* a getEmails that never sends a limit
apiLimitDropped(limit) == LimitOmitted

\* getEmails: const apiLimit = Number.isFinite(limit) ? limit : undefined
apiLimit(limit) == IF limit.kind = "number" THEN limit ELSE LimitOmitted

\* the limit property of the Email/query request object
QueryLimit(limit) ==
  IF variant = "imperative" THEN limit ELSE apiLimit(limit)

GetEmailsParse ==
  /\ cmd = "get-emails" /\ pc = "cli"
  /\ \E mkdirOk \in BOOLEAN :
       LET d == OutputDirectoryFrom(args.output, mkdirOk)
           plain == variant = "imperative"
           e == FirstError(<<
                  IF plain
                    THEN IF IsGiven(args.username) THEN NoError
                         ELSE Error("cmd-ts", "No value provided for --username")
                    ELSE CredentialError(args.username,
                           "No value provided for --username", "Username is required"),
                  IF plain
                    THEN IF IsGiven(args.password) THEN NoError
                         ELSE Error("cmd-ts", "No value provided for --password")
                    ELSE CredentialError(args.password,
                           "No value provided for --password",
                           "Password/token is required"),
                  d.error,
                  LimitError(args.limit) >>)
       IN
       /\ log' = log \o d.ops
       /\ loc' = [loc EXCEPT !.outDir = d.after,
                             !.limit = LimitOption(args.limit).limit]
       /\ IF e # NoError THEN ParseFail(e)
          ELSE pc' = "initializeJamClient" /\ UNCHANGED <<err, exitCode>>
  /\ UNCHANGED <<cmd, variant, args, mailboxes, store, moved, sidecar,
                 outFiles, count, idx, resp, ret, br>>

----------------------------------------------------------------------------
(* get-emails: the remote inbox *)

Msg(i) == <<"m", Digits[i + 1]>>
MsgIndex(m) == DigitVal(m[2])
\* receivedAt of the i-th message: a permutation, so that the order by
\* receivedAt is not the order of the ids
ReceivedAt(m) == (2 * MsgIndex(m)) % 5
SubjectOf(m) ==
  CASE MsgIndex(m) % 3 = 1 -> Given(<<"H", "i", "!">>)
    [] MsgIndex(m) % 3 = 2 -> Missing
    [] OTHER -> Given(<<"H", "i", "?">>)

\* the body of the i-th message: htmlBody and textBody list part ids,
\* bodyValues holds the fetched value of a part
Email(m) == [id |-> m, receivedAt |-> ReceivedAt(m), subject |-> SubjectOf(m),
             htmlBody |-> IF MsgIndex(m) % 4 = 2 THEN <<>> ELSE <<"1">>,
             textBody |-> IF MsgIndex(m) % 4 = 2 THEN <<"2">> ELSE <<>>,
             bodyValues |->
               CASE MsgIndex(m) % 4 = 1 ->
                      << <<"1", <<" ", "<", "!", "D", "o", "c", "T", "y", "p",
                                  "e", " ", "h", "t", "m", "l", ">", "<", "p",
                                  ">">> >> >>
                 [] MsgIndex(m) % 4 = 2 -> << <<"2", <<"a", "<", "b", ">">> >> >>
                 [] MsgIndex(m) % 4 = 3 -> <<>>
                 [] OTHER -> << <<"1", <<"<", "p", ">">> >> >>]

\* sort: [{property: "receivedAt", isAscending: false}], done by the server
RECURSIVE SortDesc(_)
SortDesc(S) ==
  IF S = {} THEN <<>>
  ELSE LET top == CHOOSE m \in S : \A o \in S : ReceivedAt(o) <= ReceivedAt(m)
       IN <<top>> \o SortDesc(S \ {top})

Take(s, n) == SubSeq(s, 1, IF n < Len(s) THEN n ELSE Len(s))

\* the server's Email/query answer to a request with this limit property:
\* a number caps the list, an absent or non-numeric limit does not
QueryAnswer(limit) ==
  IF limit.kind = "number" THEN Take(SortDesc(store), limit.n)
  ELSE SortDesc(store)

GetEmails ==
  /\ cmd = "get-emails" /\ pc = "getEmails"
  /\ log' = Append(log, EntryLimit("Email/query", <<loc.inbox[1].id>>,
                                   QueryLimit(loc.limit)))
  /\ \/ /\ Fail(Error("ApiError", "Failed to query emails"))
        /\ resp' = [NoResp EXCEPT !.op = "Email/query", !.transport = TRUE]
     \/ LET ids == QueryAnswer(QueryLimit(loc.limit)) IN
        /\ resp' = [NoResp EXCEPT !.op = "Email/query", !.ids = ids]
        \* first draft: if no ids, process.exit(0)
        /\ IF variant = "imperative" /\ Len(ids) = 0 THEN Complete
           ELSE pc' = "getEmailDetails" /\ UNCHANGED <<err, exitCode>>
  /\ UNCHANGED <<cmd, variant, args, mailboxes, store, moved, sidecar,
                 outFiles, count, idx, loc, ret, br>>

\* a getEmailDetails without the early return
AlwaysFetches(emailIds) == FALSE

\* if (emailIds.length === 0) return TE.right({ list: [], ... })
ReturnsEarly(emailIds) == Len(emailIds) = 0

\* getEmailDetails followed by the entry of processEmails
GetEmailDetails ==
  /\ cmd = "get-emails" /\ pc = "getEmailDetails"
  /\ LET ids == resp.ids IN
     IF ReturnsEarly(ids)
       \* no request; processEmails([]) is TE.right(0)
       THEN /\ Complete
            /\ loc' = [loc EXCEPT !.items = <<>>]
            /\ UNCHANGED <<log, resp, idx, count>>
       ELSE /\ log' = Append(log, Entry("Email/get", ids))
            /\ \/ /\ Fail(Error("ApiError", "Failed to get email details"))
                  /\ resp' = [NoResp EXCEPT !.op = "Email/get", !.transport = TRUE]
                  /\ UNCHANGED <<loc, idx, count>>
               \/ /\ resp' = [NoResp EXCEPT !.op = "Email/get", !.ids = ids]
                  /\ loc' = [loc EXCEPT !.items = [i \in 1..Len(ids) |-> Email(ids[i])]]
                  /\ idx' = 1
                  /\ count' = 0
                  /\ pc' = LoopStart
                  /\ UNCHANGED <<err, exitCode>>
  /\ UNCHANGED <<cmd, variant, args, mailboxes, store, moved, sidecar,
                 outFiles, ret, br>>

Alnum == {"a", "b", "c", "d", "e", "f", "g", "h", "i", "j", "k", "l", "m",
          "n", "o", "p", "q", "r", "s", "t", "u", "v", "w", "x", "y", "z",
          "A", "B", "C", "D", "E", "F", "G", "H", "I", "J", "K", "L", "M",
          "N", "O", "P", "Q", "R", "S", "T", "U", "V", "W", "X", "Y", "Z",
          "0", "1", "2", "3", "4", "5", "6", "7", "8", "9"}

MaxSubject == 30
NoSubject == <<"N", "o", " ", "S", "u", "b", "j", "e", "c", "t">>

\* (email.subject || "No Subject").replace(/[^a-z0-9]/gi, "_").substring(0, 30)
safeSubject(subject) ==
  LET s == IF IsGiven(subject) /\ subject[1] # <<>> THEN subject[1] ELSE NoSubject
      r == [i \in 1..Len(s) |-> IF s[i] \in Alnum THEN s[i] ELSE "_"]
  IN Take(r, MaxSubject)

\* new Date(receivedAt).toISOString().replace(/[:.]/g, "-")
timestamp(receivedAt) == <<"T">> \o NumStr(receivedAt)

\* the file name of the n-th email written
EmailFileName(email, n) ==
  IF variant \in {"json", "standalone"}
    THEN Str(<<"e", "m", "a", "i", "l", "-">> \o email.id
             \o <<".", "j", "s", "o", "n">>)
    ELSE Str(NumStr(n) \o <<"-">> \o timestamp(email.receivedAt) \o <<"-">>
             \o safeSubject(email.subject)
             \o (IF variant = "png" THEN <<".", "p", "n", "g">>
                 ELSE <<".", "j", "s", "o", "n">>))

\* the parts of a body list whose partId has a value in bodyValues
Resolvable(parts, bodyValues) ==
  SelectSeq(parts, LAMBDA partId :
              \E i \in 1..Len(bodyValues) : bodyValues[i][1] = partId)
ValueOf(partId, bodyValues) ==
  bodyValues[CHOOSE i \in 1..Len(bodyValues) : bodyValues[i][1] = partId][2]

\* a saved body field that is a JSON string
JString(s) == [kind |-> "string", tag |-> "", text |-> s]

\* `content || undefined` as JSON.stringify sees it. The content is the
\* value of the first part of the list that bodyValues resolves. The Option
\* object of jmap.ts is always truthy and is written as an object, the
\* string | null of the standalone draft is dropped when null or empty; the
\* later drafts store the part lists as fetched
BodyField(parts, bodyValues) ==
  LET r == Resolvable(parts, bodyValues)
      c == IF r = <<>> THEN <<>> ELSE <<ValueOf(r[1], bodyValues)>>
  IN
  CASE variant = "json" ->
         IF c = <<>> THEN <<[kind |-> "object", tag |-> "None", text |-> <<>>]>>
         ELSE <<[kind |-> "object", tag |-> "Some", text |-> c[1]]>>
    [] variant = "standalone" -> IF c = <<>> \/ c[1] = <<>> THEN <<>>
                                 ELSE <<JString(c[1])>>
    [] OTHER -> <<[kind |-> "parts", tag |-> "", text |-> parts]>>

\* createEmailJson / the emailData literal: the fields the claims look at
createEmailJson(email) ==
  [id |-> email.id, subject |-> email.subject,
   htmlBody |-> BodyField(email.htmlBody, email.bodyValues),
   textBody |-> BodyField(email.textBody, email.bodyValues)]

\* saveEmailToFile under the reduce of processEmails (JSON drafts)
SaveEmailToFile ==
  /\ cmd = "get-emails" /\ pc = "saveEmailToFile"
  /\ idx <= Len(loc.items)
  /\ loc' = [loc EXCEPT !.data = createEmailJson(loc.items[idx])]
  /\ LET name == EmailFileName(loc.items[idx], count + 1) IN
     /\ log' = Append(log, Entry("writeFile", name))
     /\ \/ /\ outFiles' = Append(outFiles, name)
           /\ ItemCounted
           /\ ret' = "right"
        \/ /\ Fail(Error("ApiError", "Failed to process emails"))
           /\ ret' = "left"
           /\ UNCHANGED <<outFiles, count, idx>>
  /\ UNCHANGED <<cmd, variant, args, mailboxes, store, moved, sidecar,
                 resp, br>>

----------------------------------------------------------------------------
(* Files on disk: a JSON sidecar is the list of its <<field, value>>       *)
(* members in text order; a parsed object is such a list with one member   *)
(* per field, in property order                                            *)

PathA == Str(<<"a", ".", "j", "s", "o", "n">>)
PathB == Str(<<"b", ".", "j", "s", "o", "n">>)
PathDA == Str(<<"d", "/", "a", ".", "j", "s", "o", "n">>)
ImageA == Str(<<"a", ".", "p", "n", "g">>)
ImageB == Str(<<"b", ".", "p", "n", "g">>)

Keys(obj) == {obj[i][1] : i \in 1..Len(obj)}
Has(obj, key) == key \in Keys(obj)
Get(obj, key) == obj[CHOOSE i \in 1..Len(obj) : obj[i][1] = key][2]

\* obj[key] = value: an existing property keeps its place and takes the
\* new value, a new one comes last
SetProperty(obj, key, value) ==
  IF Has(obj, key)
    THEN [i \in 1..Len(obj) |-> IF obj[i][1] = key THEN <<key, value>> ELSE obj[i]]
    ELSE Append(obj, <<key, value>>)

\* a spread that keeps the deal record and nothing else
WithOnly(obj, key, value) == <<<<key, value>>>>

\* {...obj, [key]: value}
With(obj, key, value) == SetProperty(obj, key, value)

\* JSON.parse of an object text: of a repeated member the last value wins
RECURSIVE ParseMembers(_, _)
ParseMembers(members, obj) ==
  IF members = <<>> THEN obj
  ELSE ParseMembers(Tail(members),
                    SetProperty(obj, Head(members)[1], Head(members)[2]))

JSONparse(members) == ParseMembers(members, <<>>)

\* JSON.stringify(data, null, 2): the own properties in property order
JSONstringify(obj) == [i \in 1..Len(obj) |-> <<obj[i][1], obj[i][2]>>]

MissingFile == [kind |-> "missing", obj |-> <<>>]
GarbageFile == [kind |-> "garbage", obj |-> <<>>]
JsonFile(members) == [kind |-> "json", obj |-> members]

\* the message a sidecar at this path was saved from
IdOfPath(p) == IF p = PathB THEN Msg(2) ELSE Msg(1)

HtmlSidecar(p) == JsonFile(<<<<"id", IdOfPath(p)>>, <<"subject", <<"H", "i">>>>,
                             <<"htmlBody", <<"<", "p", ">">>>> >>)
TextSidecar(p) == JsonFile(<<<<"id", IdOfPath(p)>>,
                             <<"textBody", <<"a", "<", "b", ">">>>> >>)
\* a message saved without any body
BareSidecar(p) == JsonFile(<<<<"id", IdOfPath(p)>>, <<"subject", <<"H", "i">>>> >>)
\* a message whose HTML body is a whole document
DocumentSidecar(p) ==
  JsonFile(<<<<"id", IdOfPath(p)>>,
             <<"htmlBody", <<" ", "<", "H", "t", "m", "l", ">", "<", "p", ">">>>> >>)
\* a sidecar extract has already been run on: dealInfo is not the last field
DealtSidecar(p) == JsonFile(<<<<"id", IdOfPath(p)>>,
                              <<"dealInfo", <<"o", "l", "d">>>>,
                              <<"htmlBody", <<"<", "p", ">">>>> >>)

Range(s) == {s[i] : i \in 1..Len(s)}

\* fs.readFile + JSON.parse of readJsonFile / readEmailFile
readJsonFile(content) ==
  IF content.kind = "missing"
    THEN [ok |-> FALSE, obj |-> <<>>, error |-> Error("FileError", "Failed to read file")]
  ELSE IF content.kind = "garbage"
    THEN [ok |-> FALSE, obj |-> <<>>, error |-> Error("FileError", "Failed to parse JSON")]
  ELSE [ok |-> TRUE, obj |-> JSONparse(content.obj), error |-> NoError]

Exists(p) == p \in DOMAIN sidecar /\ sidecar[p].kind # "missing"

----------------------------------------------------------------------------
(* Renderer: takeScreenshot (get-image) and saveEmailToFile (PNG draft) *)

RenderStages == {"launch", "newPage", "setContent", "setViewport",
                 "screenshot", "closeBrowser", "closeOnError"}

\* get-image composes the steps with fp-ts; the PNG draft of get-emails
\* uses try / finally around the steps after launch
FpTsRender == cmd = "get-image"

Rendering == cmd = "get-image" \/ (cmd = "get-emails" /\ variant = "png")

ScreenshotError(m) == Error("ScreenshotError", m)

StartsWith(s, prefix) ==
  Len(s) >= Len(prefix) /\ SubSeq(s, 1, Len(prefix)) = prefix

\* a content that is never taken for a whole document
NeverDocument(content) == FALSE

\* content.trim().toLowerCase().startsWith("<!doctype") || ...("<html")
LooksLikeDocument(content) ==
  LET DoctypePrefix ==
        <<"<", "!", "d", "o", "c", "t", "y", "p", "e">>
      HtmlPrefix ==
        <<"<", "h", "t", "m", "l">>
  IN
  \E trimmed \in {Trim(content)} :
    \E c \in {toLowerCase(trimmed)} :
      StartsWith(c, DoctypePrefix) \/ StartsWith(c, HtmlPrefix)

\* The page templates, without their style sheet and metadata block
PreOpen ==
  <<"<", "p", "r", "e", ">">>
PreClose ==
  <<"<", "/", "p", "r", "e", ">">>
NoContentNotice ==
  <<"<", "p", ">", "N", "o", " ", "c", "o", "n", "t", "e", "n", "t", " ",
    "a", "v", "a", "i", "l", "a", "b", "l", "e", " ", "f", "o", "r", " ",
    "t", "h", "i", "s", " ", "e", "m", "a", "i", "l", ".", "<", "/", "p",
    ">">>

\* `<!DOCTYPE html> ... <title>${subject}</title> ... ${inner} ...`
Page(subject, inner) ==
  LET DocHead ==
        <<"<", "!", "D", "O", "C", "T", "Y", "P", "E", " ", "h", "t", "m", "l",
          ">", "<", "h", "t", "m", "l", ">", "<", "h", "e", "a", "d", ">", "<",
          "t", "i", "t", "l", "e", ">">>
      DocTitleEnd ==
        <<"<", "/", "t", "i", "t", "l", "e", ">", "<", "/", "h", "e", "a", "d",
          ">", "<", "b", "o", "d", "y", ">">>
      DocEnd ==
        <<"<", "/", "b", "o", "d", "y", ">", "<", "/", "h", "t", "m", "l", ">">>
  IN
  DocHead \o subject \o DocTitleEnd \o inner \o DocEnd

\* email.subject || "No Subject"
SubjectText(email) ==
  IF IsGiven(email.subject) /\ email.subject[1] # <<>> THEN email.subject[1]
  ELSE NoSubject

\* getHtmlContent of the PNG draft
getHtmlContent(email) ==
  LET html == Resolvable(email.htmlBody, email.bodyValues)
      text == Resolvable(email.textBody, email.bodyValues)
  IN
  IF html # <<>> THEN ValueOf(html[1], email.bodyValues)
  ELSE IF text # <<>>
    THEN Page(SubjectText(email),
              PreOpen \o ValueOf(text[1], email.bodyValues) \o PreClose)
  ELSE Page(SubjectText(email), NoContentNotice)

\* generateFullHtml of the PNG draft
generateFullHtml(email) ==
  LET htmlContent == getHtmlContent(email) IN
  IF LooksLikeDocument(htmlContent) THEN htmlContent
  ELSE Page(SubjectText(email), htmlContent)

\* the arguments of the render invocation: takeScreenshot(html, filePath) in
\* get-image, the fileName / generateFullHtml() locals in the PNG draft
RenderOut ==
  IF cmd = "get-emails" THEN EmailFileName(loc.items[idx], count + 1)
  ELSE loc.out
RenderHtml ==
  IF cmd = "get-emails" THEN generateFullHtml(loc.items[idx]) ELSE loc.html

\* where a failed step after newPage goes: the TE.orElse / the finally block
ToCleanup(e) ==
  /\ pc' = "closeOnError"
  /\ err' = e
  /\ exitCode' = exitCode

LaunchBrowser ==
  /\ Rendering /\ pc = "launch"
  /\ idx <= Len(loc.items)
  /\ log' = Append(log, Entry("launch", <<>>))
  /\ \/ /\ br' = [launched |-> TRUE, open |-> TRUE, closeCalls |-> 0,
                  captured |-> FALSE]
        /\ pc' = "newPage"
        /\ UNCHANGED <<err, exitCode, count, idx, loc, ret>>
     \/ /\ br' = NoBrowser
        /\ ItemFailed(ScreenshotError("Failed to launch browser"), loc)
        /\ ret' = "left"
  /\ UNCHANGED <<cmd, variant, args, mailboxes, store, moved, sidecar,
                 outFiles, resp>>

\* createPage: in takeScreenshot its Left leaves the chain before the
\* TE.orElse that closes the browser; in the PNG draft it is inside the try
CreatePage ==
  /\ Rendering /\ pc = "newPage"
  /\ log' = Append(log, Entry("newPage", <<>>))
  /\ \/ /\ pc' = "setContent"
        /\ UNCHANGED <<err, exitCode, count, idx, loc, ret>>
     \/ IF FpTsRender
          THEN /\ ItemFailed(ScreenshotError("Failed to create page"), loc)
               /\ ret' = "left"
          ELSE /\ ToCleanup(ScreenshotError("Failed to create page"))
               /\ UNCHANGED <<count, idx, loc, ret>>
  /\ UNCHANGED <<cmd, variant, args, mailboxes, store, moved, sidecar,
                 outFiles, resp, br>>

SetPageContent ==
  /\ Rendering /\ pc = "setContent"
  /\ log' = Append(log, Entry("setContent", RenderHtml))
  /\ \/ pc' = "setViewport" /\ UNCHANGED <<err, exitCode>>
     \/ ToCleanup(ScreenshotError("Failed to set page content"))
  /\ UNCHANGED <<cmd, variant, args, mailboxes, store, moved, sidecar,
                 outFiles, count, idx, loc, resp, ret, br>>

\* the older get-image draft does not await page.setViewport, so the
\* pipeline never sees it fail
ViewportAwaited == ~(cmd = "get-image" /\ variant = "file")

SetViewport ==
  /\ Rendering /\ pc = "setViewport"
  /\ log' = Append(log, Entry("setViewport", <<>>))
  /\ \/ pc' = "screenshot" /\ UNCHANGED <<err, exitCode>>
     \/ /\ ViewportAwaited
        /\ ToCleanup(ScreenshotError("Failed to set viewport"))
  /\ UNCHANGED <<cmd, variant, args, mailboxes, store, moved, sidecar,
                 outFiles, count, idx, loc, resp, ret, br>>

CaptureScreenshot ==
  /\ Rendering /\ pc = "screenshot"
  /\ log' = Append(log, Entry("screenshot", RenderOut))
  /\ \/ /\ outFiles' = Append(outFiles, RenderOut)
        /\ br' = [br EXCEPT !.captured = TRUE]
        /\ pc' = "closeBrowser"
        /\ UNCHANGED <<err, exitCode>>
     \/ /\ ToCleanup(ScreenshotError("Failed to capture screenshot"))
        /\ UNCHANGED <<outFiles, br>>
  /\ UNCHANGED <<cmd, variant, args, mailboxes, store, moved, sidecar,
                 count, idx, loc, resp, ret>>

\* success path: TE.chainFirst(() => closeBrowser(browser)) / finally
CloseBrowser ==
  /\ Rendering /\ pc = "closeBrowser"
  /\ log' = Append(log, Entry("close", <<>>))
  /\ \/ /\ br' = [br EXCEPT !.open = FALSE, !.closeCalls = @ + 1]
        /\ ItemCounted
        /\ ret' = "right"
        /\ loc' = loc
     \/ /\ br' = [br EXCEPT !.closeCalls = @ + 1]
        /\ IF FpTsRender
             \* the Left of closeBrowser falls into the TE.orElse below it
             THEN /\ ToCleanup(ScreenshotError("Failed to close browser"))
                  /\ UNCHANGED <<count, idx, loc, ret>>
             ELSE /\ ItemFailed(ScreenshotError("Failed to close browser"), loc)
                  /\ ret' = "left"
  /\ UNCHANGED <<cmd, variant, args, mailboxes, store, moved, sidecar,
                 outFiles, resp>>

\* failure path: the TE.orElse of takeScreenshot / the finally block; the
\* outcome of this close is dropped and the first error is returned
CloseOnError ==
  /\ Rendering /\ pc = "closeOnError"
  /\ log' = Append(log, Entry("close", <<>>))
  /\ \E closed \in BOOLEAN :
       br' = [br EXCEPT !.open = IF closed THEN FALSE ELSE @,
                        !.closeCalls = @ + 1]
  /\ ItemFailed(err, loc)
  /\ ret' = "left"
  /\ UNCHANGED <<cmd, variant, args, mailboxes, store, moved, sidecar,
                 outFiles, resp>>

----------------------------------------------------------------------------
(* get-image *)

\* EmailJsonPaths.from (newer draft) / validatePaths over EmailJsonPath.from
\* (older draft): at least one path, and fs.access on each in turn
\* a parser that takes every path without looking at the disk
AccessNone(paths) == [ok |-> TRUE, ops |-> <<>>]

RECURSIVE AccessAll(_)
AccessAll(paths) ==
  IF paths = <<>> THEN [ok |-> TRUE, ops |-> <<>>]
  ELSE IF ~Exists(Head(paths))
    THEN [ok |-> FALSE, ops |-> <<Entry("access", Head(paths))>>]
  ELSE LET rest == AccessAll(Tail(paths)) IN
       [ok |-> rest.ok, ops |-> <<Entry("access", Head(paths))>> \o rest.ops]

EmailJsonPathsFrom(paths) ==
  IF Len(paths) = 0
    THEN [ok |-> FALSE, ops |-> <<>>,
          error |-> Error("GetImageError", "At least one file path is required")]
  ELSE LET a == AccessAll(paths) IN
       [ok |-> a.ok, ops |-> a.ops,
        error |-> IF a.ok THEN NoError
                  ELSE Error(IF variant = "file" THEN "FileNotFoundError"
                             ELSE "GetImageError", "File not found")]

GetImageParse ==
  /\ cmd = "get-image" /\ pc = "cli"
  /\ \E mkdirOk \in BOOLEAN :
       LET p == EmailJsonPathsFrom(args.inputs)
           d == OutputDirectoryFrom(args.output, mkdirOk)
           e == FirstError(<<p.error, d.error>>)
       IN
       /\ log' = log \o p.ops \o d.ops
       /\ IF e # NoError
            THEN ParseFail(e) /\ loc' = [loc EXCEPT !.outDir = d.after]
                 /\ UNCHANGED <<idx, count>>
            ELSE /\ UNCHANGED <<err, exitCode>>
                 /\ IF variant = "input"
                      THEN /\ pc' = "validatePaths"
                           /\ loc' = [loc EXCEPT !.outDir = d.after]
                           /\ UNCHANGED <<idx, count>>
                      \* older draft: the handler starts the reduce at once
                      ELSE /\ pc' = "readEmailFile"
                           /\ loc' = [loc EXCEPT !.outDir = d.after,
                                                 !.items = args.inputs]
                           /\ idx' = 1
                           /\ count' = 0
  /\ UNCHANGED <<cmd, variant, args, mailboxes, store, moved, sidecar,
                 outFiles, resp, ret, br>>

\* validatePaths of the newer draft: TE.sequenceArray starts fs.access on
\* every path at once; loc.inflight counts the calls not yet settled
ValidatePaths ==
  /\ cmd = "get-image" /\ variant = "input" /\ pc = "validatePaths"
  /\ log' = log \o [i \in 1..Len(args.inputs) |-> Entry("access", args.inputs[i])]
  /\ loc' = [loc EXCEPT !.inflight = Len(args.inputs)]
  /\ pc' = "settlePaths"
  /\ UNCHANGED <<cmd, variant, args, mailboxes, store, moved, sidecar,
                 outFiles, err, exitCode, count, idx, resp, ret, br>>

\* the calls have settled: the first Left in input order is the result
SettlePaths ==
  /\ cmd = "get-image" /\ variant = "input" /\ pc = "settlePaths"
  /\ log' = log
  /\ IF \E i \in 1..Len(args.inputs) : ~Exists(args.inputs[i])
       THEN /\ Fail(Error("GetImageError", "File doesn't exist"))
            /\ loc' = [loc EXCEPT !.inflight = 0]
            /\ UNCHANGED <<idx, count>>
       ELSE /\ loc' = [loc EXCEPT !.items = args.inputs, !.inflight = 0]
            /\ idx' = 1
            /\ count' = 0
            /\ pc' = "readEmailFile"
            /\ UNCHANGED <<err, exitCode>>
  /\ UNCHANGED <<cmd, variant, args, mailboxes, store, moved, sidecar,
                 outFiles, resp, ret, br>>

\* path.basename(inputPath, path.extname(inputPath))
LastIndexOf(s, c) ==
  IF \A i \in 1..Len(s) : s[i] # c THEN 0
  ELSE CHOOSE i \in 1..Len(s) : s[i] = c /\ \A j \in (i + 1)..Len(s) : s[j] # c

basename(p) == SubSeq(p, LastIndexOf(p, "/") + 1, Len(p))
stem(p) ==
  LET b == basename(p)
      dot == LastIndexOf(b, ".")
  IN IF dot <= 1 THEN b ELSE SubSeq(b, 1, dot - 1)

PngExt == <<".", "p", "n", "g">>

Truthy(obj, key) == Has(obj, key) /\ Get(obj, key) # <<>>

\* extractRawContent, for the fields a saved sidecar carries
extractRawContent(obj) ==
  IF Truthy(obj, "htmlBody") THEN [content |-> Get(obj, "htmlBody"), isHtml |-> TRUE]
  ELSE IF Truthy(obj, "textBody")
    THEN [content |-> Get(obj, "textBody"), isHtml |-> FALSE]
  ELSE [content |-> <<>>, isHtml |-> FALSE]

\* a generateEmailHtml without the case of an empty content
generateEmailHtmlNoNotice(obj) ==
  LET raw == extractRawContent(obj)
      subject == IF Truthy(obj, "subject") THEN Get(obj, "subject") ELSE NoSubject
  IN
  IF raw.isHtml /\ LooksLikeDocument(raw.content) THEN raw.content
  ELSE IF ~raw.isHtml THEN Page(subject, PreOpen \o raw.content \o PreClose)
  ELSE Page(subject, raw.content)

\* generateEmailHtml: the document handed to the browser
generateEmailHtml(obj) ==
  LET raw == extractRawContent(obj)
      \* email.subject || "No Subject"
      subject == IF Truthy(obj, "subject") THEN Get(obj, "subject") ELSE NoSubject
  IN
  IF raw.isHtml /\ LooksLikeDocument(raw.content) THEN raw.content
  ELSE IF raw.content = <<>> THEN Page(subject, NoContentNotice)
  ELSE IF ~raw.isHtml THEN Page(subject, PreOpen \o raw.content \o PreClose)
  ELSE Page(subject, raw.content)

\* processEmailFile (newer draft) / generateImageFromEmailFile (older draft)
\* up to the call of takeScreenshot
ReadEmailFile ==
  /\ cmd = "get-image" /\ pc = "readEmailFile"
  /\ idx <= Len(loc.items)
  /\ \E inputPath \in {loc.items[idx]} :
     \E r \in {readJsonFile(sidecar[inputPath])} :
     /\ log' = Append(log, Entry("readFile", inputPath))
     /\ IF ~r.ok
          THEN /\ ItemFailed(IF variant = "input"
                               THEN Error("GetImageError",
                                          "Failed to read or parse email JSON file")
                               ELSE Error("FileReadError", r.error.msg), loc)
               /\ ret' = "left"
        ELSE IF variant = "input" /\ ~Truthy(r.obj, "htmlBody")
          THEN /\ ItemFailed(Error("GetImageError",
                                   "Email JSON file has no HTML content"), loc)
               /\ ret' = "left"
        ELSE /\ loc' = [loc EXCEPT
                  !.data = r.obj,
                  !.html = IF variant = "input" THEN Get(r.obj, "htmlBody")
                           ELSE generateEmailHtml(r.obj),
                  !.out = IF variant = "input" THEN Str(stem(inputPath) \o PngExt)
                          ELSE Str(<<"e", "m", "a", "i", "l", "-">>
                                   \o Get(r.obj, "id") \o PngExt)]
             /\ pc' = "launch"
             /\ UNCHANGED <<err, exitCode, count, idx, ret>>
  /\ UNCHANGED <<cmd, variant, args, mailboxes, store, moved, sidecar,
                 outFiles, resp, br>>

----------------------------------------------------------------------------
(* extract *)

\* PathValidator.validatePaths
PathsError(paths) ==
  IF Len(paths) = 0 THEN Error("ExtractError", "At least one path is required")
  ELSE IF \E i \in 1..Len(paths) : Trim(paths[i]) = <<>>
       THEN Error("ExtractError", "Path cannot be empty")
  ELSE NoError

\* option({type: ApiKey, env: "GEMINI_API_KEY"}) with validateApiKey
ApiKeyError(o) ==
  IF ~IsGiven(o) THEN Error("cmd-ts", "No value provided for --api-key")
  ELSE IF ~validateRequired(o[1])
    THEN Error("ApiKeyError", "Gemini API key is required")
  ELSE NoError

ExtractParse ==
  /\ cmd = "extract" /\ pc = "cli"
  /\ LET e == FirstError(<<PathsError(args.images), PathsError(args.files),
                           ApiKeyError(args.apiKey)>>) IN
     IF e # NoError THEN ParseFail(e)
     ELSE pc' = "validateImageFilePairs" /\ UNCHANGED <<err, exitCode>>
  /\ UNCHANGED <<cmd, variant, args, mailboxes, store, moved, sidecar,
                 outFiles, log, count, idx, loc, resp, ret, br>>

\* a pairing that takes the files in reverse order
validateImageFilePairsCrossed(images, files) ==
  IF Len(images) # Len(files)
    THEN [ok |-> FALSE, pairs |-> <<>>,
          error |-> Error("ExtractError", "Number of image paths does not match")]
    ELSE [ok |-> TRUE, error |-> NoError,
          pairs |-> [i \in 1..Len(images) |->
                      [imagePath |-> images[i],
                       filePath |-> files[Len(files) + 1 - i]]]]

\* a pairing without the length check: pairs up to the shorter list
validateImageFilePairsShorter(images, files) ==
  LET n == IF Len(images) < Len(files) THEN Len(images) ELSE Len(files) IN
  [ok |-> TRUE, error |-> NoError,
   pairs |-> [i \in 1..n |-> [imagePath |-> images[i], filePath |-> files[i]]]]

validateImageFilePairs(images, files) ==
  IF Len(images) # Len(files)
    THEN [ok |-> FALSE, pairs |-> <<>>,
          error |-> Error("ExtractError",
                     "Number of image paths does not match number of file paths")]
    ELSE [ok |-> TRUE, error |-> NoError,
          pairs |-> [i \in 1..Len(images) |->
                       [imagePath |-> images[i], filePath |-> files[i]]]]

\* the head of the handler: a Left is printed and the handler returns 1
ValidateImageFilePairs ==
  /\ cmd = "extract" /\ pc = "validateImageFilePairs"
  /\ LET r == validateImageFilePairs(args.images, args.files) IN
     IF ~r.ok
       THEN Fail(r.error) /\ UNCHANGED <<loc, idx, count>>
       ELSE /\ loc' = [loc EXCEPT !.items = r.pairs]
            /\ idx' = 1
            /\ count' = 0
            /\ IF Len(r.pairs) = 0 THEN Complete
               ELSE pc' = "readJsonFile" /\ UNCHANGED <<err, exitCode>>
  /\ UNCHANGED <<cmd, variant, args, mailboxes, store, moved, sidecar,
                 outFiles, log, resp, ret, br>>

\* processEmailFile: readJsonFile(pair.filePath)
ReadJsonFile ==
  /\ cmd = "extract" /\ pc = "readJsonFile"
  /\ idx <= Len(loc.items)
  /\ LET pair == loc.items[idx]
         r == readJsonFile(sidecar[pair.filePath])
     IN
     /\ log' = Append(log, Entry("readFile", pair.filePath))
     /\ IF r.ok
          THEN /\ loc' = [loc EXCEPT !.data = r.obj]
               /\ pc' = "readImageAsBase64"
               /\ UNCHANGED <<err, exitCode, ret>>
          ELSE /\ Fail(r.error)
               /\ ret' = "left"
               /\ loc' = loc
  /\ UNCHANGED <<cmd, variant, args, mailboxes, store, moved, sidecar,
                 outFiles, count, idx, resp, br>>

\* processImageWithGemini: readImageAsBase64(imagePath)
ReadImageAsBase64 ==
  /\ cmd = "extract" /\ pc = "readImageAsBase64"
  /\ log' = Append(log, Entry("readFile", loc.items[idx].imagePath))
  /\ \/ pc' = "generateContent" /\ UNCHANGED <<err, exitCode, ret>>
     \/ /\ Fail(Error("ImageProcessingError", "Failed to read image file"))
        /\ ret' = "left"
  /\ UNCHANGED <<cmd, variant, args, mailboxes, store, moved, sidecar,
                 outFiles, count, idx, loc, resp, br>>

\* what the model is asked to extract from this image
DealOf(imagePath) == <<"d", "e", "a", "l", ":">> \o imagePath

\* processImageWithGemini: model.generateContent and JSON.parse of its text
GenerateContent ==
  /\ cmd = "extract" /\ pc = "generateContent"
  /\ log' = Append(log, Entry("generateContent", loc.items[idx].imagePath))
  /\ \/ /\ loc' = [loc EXCEPT !.deal = DealOf(loc.items[idx].imagePath)]
        /\ pc' = "writeJsonFile"
        /\ UNCHANGED <<err, exitCode, ret>>
     \/ /\ \E m \in {"Failed to process image with Gemini",
                     "Failed to parse JSON response"} :
             Fail(Error("GeminiError", m))
        /\ ret' = "left"
        /\ loc' = loc
  /\ UNCHANGED <<cmd, variant, args, mailboxes, store, moved, sidecar,
                 outFiles, count, idx, resp, br>>

\* processEmailFile: writeJsonFile(pair.filePath, {...emailData, dealInfo})
WriteJsonFile ==
  /\ cmd = "extract" /\ pc = "writeJsonFile"
  /\ LET filePath == loc.items[idx].filePath IN
     /\ log' = Append(log, Entry("writeFile", filePath))
     /\ \/ /\ sidecar' = [sidecar EXCEPT
                 ![filePath] =
                   JsonFile(JSONstringify(With(loc.data, "dealInfo", loc.deal)))]
           /\ outFiles' = Append(outFiles, filePath)
           /\ ItemCounted
           /\ ret' = "right"
        \/ /\ Fail(Error("FileError", "Failed to write file"))
           /\ ret' = "left"
           /\ UNCHANGED <<sidecar, outFiles, count, idx>>
  /\ UNCHANGED <<cmd, variant, args, mailboxes, store, moved, loc, resp, br>>

----------------------------------------------------------------------------
(* Inputs: command lines, remote mailbox, files on disk *)

SeqsUpTo(S, n) == UNION {[1..k -> S] : k \in 0..n}

User == <<"u">>
OptionValues == {Missing, Given(Blank), Given(User)}

Roles == {"inbox", "archive", "trash"}
Box(i, r) == [id |-> <<"b", Digits[i + 1]>>, role |-> r]
MailboxLists ==
  UNION {{[i \in 1..k |-> Box(i, f[i])] : f \in [1..k -> Roles]} : k \in 0..MaxBoxes}
UsualMailboxes == <<Box(1, "inbox"), Box(2, "archive")>>

Paths == {PathA, PathB, PathDA}
NoFiles == [p \in Paths |-> MissingFile]

LimitStrings == {Str(<<"a", "l", "l">>), Str(<<"A", "L", "L">>), Str(<<"0">>),
                 Str(<<"-", "1">>), Str(<<"1">>), Str(<<"2">>), Str(<<"x">>),
                 Str(<<"2", "x">>)}

NoArgs == [username |-> Missing, password |-> Missing, ids |-> <<>>,
           images |-> <<>>, files |-> <<>>, apiKey |-> Missing,
           limit |-> Missing, inputs |-> <<>>, output |-> "dir"]

InitCommon ==
  /\ pc = "cli"
  /\ log = <<>>
  /\ err = NoError
  /\ exitCode = NoExit
  /\ count = 0
  /\ idx = 0
  /\ loc = NoLoc
  /\ resp = NoResp
  /\ ret = "none"
  /\ br = NoBrowser
  /\ moved = {}
  /\ outFiles = <<>>

InitArchive ==
  /\ cmd = "archive"
  /\ variant = "archive"
  /\ \E u \in OptionValues, p \in OptionValues,
        ids \in SeqsUpTo({Msg(1), Msg(2), Blank}, MaxIds) :
       /\ args = [NoArgs EXCEPT !.username = u, !.password = p, !.ids = ids]
       /\ (u = Given(User) /\ p = Given(User)) \/ ids = <<Msg(1)>>
  /\ mailboxes \in MailboxLists
  /\ (RequiredOk(args.username) /\ RequiredOk(args.password))
       \/ mailboxes = UsualMailboxes
  /\ store \in SUBSET {Msg(1), Msg(2)}
  /\ sidecar = NoFiles

InitGetEmails ==
  /\ cmd = "get-emails"
  /\ variant \in {"json", "standalone", "timestamp", "png", "imperative"}
  /\ \E u \in OptionValues, p \in OptionValues,
        l \in {Missing} \cup {Given(x) : x \in LimitStrings},
        o \in {"dir", "missing", "file"} :
       /\ args = [NoArgs EXCEPT !.username = u, !.password = p, !.limit = l,
                                !.output = o]
       /\ (u = Given(User) /\ p = Given(User)) \/ (l = Missing /\ o = "dir")
  /\ mailboxes \in MailboxLists
  /\ \E m \in 0..MaxMsgs : store = {Msg(i) : i \in 1..m}
  /\ (args.output = "dir" /\ mailboxes # <<>> /\ mailboxes[1].role = "inbox")
       \/ store = {Msg(1)}
  /\ sidecar = NoFiles

SidecarContents(p) ==
  {MissingFile, GarbageFile, HtmlSidecar(p), TextSidecar(p), BareSidecar(p),
   DocumentSidecar(p)}

InitGetImage ==
  /\ cmd = "get-image"
  /\ variant \in {"input", "file"}
  /\ \E inputs \in SeqsUpTo(Paths, MaxInputs), o \in {"dir", "missing", "file"} :
       /\ args = [NoArgs EXCEPT !.inputs = inputs, !.output = o]
       /\ o = "dir" \/ Len(inputs) <= 1
  /\ sidecar \in [Paths -> UNION {SidecarContents(p) : p \in Paths}]
  /\ \A p \in Paths :
       /\ sidecar[p] \in SidecarContents(p)
       /\ p \in Range(args.inputs) \/ sidecar[p] = MissingFile
  /\ mailboxes = <<>>
  /\ store = {}

InitExtract ==
  /\ cmd = "extract"
  /\ variant = "extract"
  /\ \E images \in SeqsUpTo({ImageA, ImageB, Blank}, MaxPairs),
        files \in SeqsUpTo({PathA, PathB, Blank}, MaxPairs),
        k \in OptionValues :
       args = [NoArgs EXCEPT !.images = images, !.files = files, !.apiKey = k]
  /\ sidecar \in [Paths -> {MissingFile, GarbageFile} \cup
                    UNION {{HtmlSidecar(p), DealtSidecar(p)} : p \in Paths}]
  /\ \A p \in Paths :
       /\ sidecar[p] \in {MissingFile, GarbageFile, HtmlSidecar(p), DealtSidecar(p)}
       /\ p \in Range(args.files) \/ sidecar[p] = MissingFile
  /\ mailboxes = <<>>
  /\ store = {}

Init ==
  /\ InitCommon
  /\ InitArchive \/ InitGetEmails \/ InitGetImage \/ InitExtract

Next ==
  \/ ArchiveParse
  \/ InitializeJamClient
  \/ GetAccountId
  \/ GetMailboxes
  \/ FindInbox
  \/ FindArchive
  \/ VerifyEmails
  \/ ArchiveEmail
  \/ GetEmailsParse
  \/ GetEmails
  \/ GetEmailDetails
  \/ SaveEmailToFile
  \/ GetImageParse
  \/ ValidatePaths
  \/ SettlePaths
  \/ ReadEmailFile
  \/ LaunchBrowser
  \/ CreatePage
  \/ SetPageContent
  \/ SetViewport
  \/ CaptureScreenshot
  \/ CloseBrowser
  \/ CloseOnError
  \/ ExtractParse
  \/ ValidateImageFilePairs
  \/ ReadJsonFile
  \/ ReadImageAsBase64
  \/ GenerateContent
  \/ WriteJsonFile

Spec == Init /\ [][Next]_vars

\* every step is one awaited call: when each call returns or fails, the
\* step that waits for it is taken
FairSpec == Init /\ [][Next]_vars /\ WF_vars(Next)

----------------------------------------------------------------------------
(* Properties *)

HasOp(op) == \E i \in 1..Len(log) : log[i].op = op
CountOps(kinds) == Len(OpsOf(log, kinds))

\* the requested ids the remote store does not hold, in request order
MissingIds == SelectSeq(args.ids, LAMBDA i : i \notin store)

\* C1: archive. Whenever the answer of the verification request names at
\* least one missing id, the run is Failed with exit code 1 and no Email/set
\* request has been issued and nothing was moved; and an Email/set request
\* is only ever issued when none of the requested ids is missing.
C1_NoMoveWhenMissing ==
  cmd = "archive" =>
    /\ (resp.op = "Email/get" /\ Len(resp.notFound) > 0) =>
         /\ pc = "Failed"
         /\ exitCode = 1
         /\ ~HasOp("Email/set")
         /\ moved = {}
    /\ HasOp("Email/set") => MissingIds = <<>>
    /\ moved # {} => MissingIds = <<>>

\* archive --id m1 --id m2 where m2 is missing: failed, m1 not moved
C1_Witness ==
  /\ cmd = "archive"
  /\ args.ids = <<Msg(1), Msg(2)>>
  /\ store = {Msg(1)}
  /\ resp.op = "Email/get"
  /\ resp.notFound = <<Msg(2)>>
  /\ pc = "Failed"
  /\ exitCode = 1
  /\ moved = {}

\* verifyEmails has returned and archiveEmails has not yet issued a request
VerifyReturned == cmd = "archive" /\ resp.op = "Email/get"

\* C2 as stated: verifyEmails fails with the not-found error carrying
\* exactly the missing ids whenever a requested id is absent from the
\* store, and otherwise returns the input id list unchanged.
C2_Original ==
  VerifyReturned =>
    IF MissingIds # <<>>
      THEN /\ pc = "Failed"
           /\ err.msg = "Some emails were not found"
           /\ err.ids = MissingIds
      ELSE /\ pc # "Failed"
           /\ loc.items = args.ids

\* C2 amended: when the Email/get request itself fails, verifyEmails fails
\* with ApiError "Failed to verify emails" whatever the store holds; when it
\* is answered, verifyEmails fails with the ApiError carrying exactly the
\* missing ids if any requested id is absent, and otherwise returns the
\* input id list unchanged (same ids, same order, duplicates kept).
C2_Amended ==
  VerifyReturned =>
    IF resp.transport
      THEN /\ pc = "Failed"
           /\ err = Error("ApiError", "Failed to verify emails")
    ELSE IF MissingIds # <<>>
      THEN /\ pc = "Failed"
           /\ err.class = "ApiError"
           /\ err.msg = "Some emails were not found"
           /\ err.ids = MissingIds
      ELSE /\ pc # "Failed"
           /\ err = NoError
           /\ loc.items = args.ids

\* both outcomes of an answered request: <<m1, m2>> with m1 missing is
\* refused naming m1 alone
C2_Witness ==
  /\ VerifyReturned
  /\ ~resp.transport
  /\ args.ids = <<Msg(1), Msg(2)>>
  /\ store = {Msg(2)}
  /\ pc = "Failed"
  /\ err.ids = <<Msg(1)>>

CountMismatch == cmd = "extract" /\ Len(args.images) # Len(args.files)

\* C3: extract. When the number of --image paths differs from the number of
\* --file paths the run never gets past the validation of the pairs: no
\* file is read, no image is read, the backend is not called and nothing is
\* written; it ends with exit code 1, and when the handler is the one that
\* refuses the input the error is the count mismatch.
C3_MismatchFailsFirst ==
  CountMismatch =>
    /\ pc \in {"cli", "validateImageFilePairs", "Failed", "ParseFailed"}
    /\ log = <<>>
    /\ outFiles = <<>>
    /\ Terminal => exitCode = 1 /\ err # NoError
    /\ pc = "Failed" =>
         err = Error("ExtractError",
                     "Number of image paths does not match number of file paths")

\* extract --image a.png --file a.json --image b.png with a key
C3_Witness ==
  /\ cmd = "extract"
  /\ args.images = <<ImageA, ImageB>>
  /\ args.files = <<PathA>>
  /\ IsGiven(args.apiKey)
  /\ pc = "Failed"
  /\ exitCode = 1
  /\ log = <<>>

\* C4 as stated: extract. When the counts differ, the paths are well formed
\* and no API key is supplied (no --api-key, no GEMINI_API_KEY), the run
\* ends with the count-mismatch failure, not with an API-key failure.
C4_Original ==
  ( /\ CountMismatch
    /\ PathsError(args.images) = NoError
    /\ PathsError(args.files) = NoError
    /\ ~IsGiven(args.apiKey)
    /\ Terminal )
  => err = Error("ExtractError",
                 "Number of image paths does not match number of file paths")

\* the N of a finite limit, and the N most recently received messages
LimitN == loc.limit.n
MostRecent == Take(SortDesc(store), LimitN)

FiniteLimitRun ==
  /\ cmd = "get-emails"
  /\ pc = "Completed"
  /\ loc.limit.kind = "number"
  /\ Cardinality(store) >= LimitN

Contains(s, t) ==
  \E k \in 0..(Len(s) - Len(t)) : SubSeq(s, k + 1, k + Len(t)) = t

JsonExt == <<".", "j", "s", "o", "n">>

LimitGiven(strs) ==
  cmd = "get-emails" /\ IsGiven(args.limit) /\ args.limit[1] \in strs

\* C6 as stated: get-emails. With --limit all no Email/query request
\* carries a limit value, and with --limit 0 or a negative limit the parser
\* refuses the command line and no remote call is made.
C6_Original ==
  /\ LimitGiven({Str(<<"a", "l", "l">>), Str(<<"A", "L", "L">>)}) =>
       \A i \in 1..Len(log) :
         log[i].op = "Email/query" => log[i].limit = LimitOmitted
  /\ LimitGiven({Str(<<"0">>), Str(<<"-", "1">>)}) =>
       /\ CountOps(RemoteOps) = 0
       /\ pc \in {"cli", "ParseFailed"}

\* archiveEmail has looked at the answer of its Email/set request
ArchiveEmailAnswered ==
  cmd = "archive" /\ resp.op = "Email/set" /\ ~resp.transport

\* C7: archiveEmail returns true if the answer lists the id as updated,
\* fails with the ApiError for that id if the answer lists it as not
\* updated, and returns false exactly when the answer lists it in neither.
C7_ArchiveEmailResult ==
  ArchiveEmailAnswered =>
    /\ resp.updated => ret = "true" /\ resp.ids[1] \in moved
    /\ resp.notUpdated =>
         /\ ret = "error"
         /\ pc = "Failed"
         /\ err = ErrorIds("ApiError", "Failed to archive email", resp.ids)
    /\ ret = "false" <=> (~resp.updated /\ ~resp.notUpdated)
    /\ ret \in {"true", "false"} => err = NoError

\* an id the server refused to update
C7_Witness ==
  /\ ArchiveEmailAnswered
  /\ resp.notUpdated
  /\ ret = "error"
  /\ pc = "Failed"

\* C8 as stated: once a render invocation that launched the browser has
\* returned, on the success path or on a failure path, close has been
\* called on that browser.
C8_Original ==
  (Rendering /\ br.launched /\ pc \notin RenderStages) => br.closeCalls >= 1

\* the reduce over the input files has been entered
BatchLoopEntered == cmd = "get-image" /\ loc.items # <<>>

FailFast == cmd \in {"get-emails", "archive", "extract"}

\* documented position of each operation in the pipelines over the mailbox
StageRank(op) ==
  CASE op \in FileProbeOps \cup {"mkdir"} -> 0
    [] op = "getPrimaryAccount" -> 1
    [] op = "Mailbox/get" -> 2
    [] op = "Email/query" -> 3
    [] op = "Email/get" -> 4
    [] OTHER -> 5

ExtractSteps == <<"readFile", "readFile", "generateContent", "writeFile">>

ItemsStarted ==
  CASE cmd = "archive" -> CountOps({"Email/set"})
    [] cmd = "extract" -> CountOps({"generateContent", "writeFile"}) \div 2
    [] cmd = "get-emails" /\ variant = "png" -> CountOps({"launch"})
    [] OTHER -> CountOps({"writeFile"})

StagesInOrder ==
  /\ \A i \in 1..Len(log), j \in 1..Len(log) :
       i < j => /\ StageRank(log[i].op) <= StageRank(log[j].op)
                /\ StageRank(log[j].op) \in 1..4 => log[i].op # log[j].op
  /\ cmd = "archive" =>
       \A j \in 1..CountOps({"Email/set"}) :
         OpsOf(log, {"Email/set"})[j].args[1] = args.ids[j]
  /\ cmd = "extract" =>
       \A i \in 1..Len(log) :
         LET k == ((i - 1) \div 4) + 1
             s == ((i - 1) % 4) + 1
         IN /\ k <= Len(loc.items)
            /\ log[i] = Entry(ExtractSteps[s],
                              IF s \in {1, 4} THEN loc.items[k].filePath
                              ELSE loc.items[k].imagePath)
  /\ ItemsStarted <= idx

\* what may still happen once a stage has failed: the browser of the failed
\* render is closed, nothing else
NothingAfterFailure ==
  err # NoError =>
    /\ OpsOf(log', BrowserOps \ {"close"}) = OpsOf(log, BrowserOps \ {"close"})
    /\ OpsOf(log', RemoteOps \cup FileReadOps \cup FileWriteOps \cup FileProbeOps)
         = OpsOf(log, RemoteOps \cup FileReadOps \cup FileWriteOps \cup FileProbeOps)
    /\ UNCHANGED <<err, outFiles, sidecar, moved, count, idx>>

\* C10: get-emails, archive, extract. The stages are issued in the
\* documented order, each once; a failed stage or per-item step puts the
\* run in Failed with exit code 1, and after it no remote call, file
\* operation or item is started and no stage is issued again.
C10_FailFastInOrder ==
  /\ [](FailFast =>
          /\ StagesInOrder
          /\ err # NoError => pc \in {"Failed", "ParseFailed", "closeOnError"}
          /\ pc \in {"Failed", "ParseFailed"} => exitCode = 1 /\ err # NoError
          /\ pc = "Completed" => exitCode = 0)
  /\ [][FailFast => NothingAfterFailure]_vars

\* archive of two ids, the first refused by the server: one Email/set only
C10_Witness ==
  /\ cmd = "archive"
  /\ pc = "Failed"
  /\ exitCode = 1
  /\ ret = "error"
  /\ Len(loc.items) = 2
  /\ idx = 1
  /\ CountOps({"Email/set"}) = 1

\* an error occurred in the run: one is carried in the Left of the pipeline,
\* or one was caught by the loop's TE.orElse
ErrorOccurred == err # NoError \/ loc.swallowed > 0

\* C11 as stated: every command. A run in which an error occurred never
\* ends with exit code 0: it ends with exit code 1.
C11_Original ==
  (Terminal /\ ErrorOccurred) => exitCode = 1

SidecarObject(content) == readJsonFile(content).obj

\* the step in which extract rewrites the sidecar of the current pair
SidecarRewritten == cmd = "extract" /\ sidecar' # sidecar

\* C12: extract. The only step that changes a file is the rewrite of the
\* current pair's sidecar after its deal record was extracted; reading that
\* file back yields the object read from it before the rewrite with
\* dealInfo set to the extracted record, every other field with the value
\* it had, and no field added or removed; no other file changes.
C12_RoundTrip ==
  [][SidecarRewritten =>
       LET p == loc.items[idx].filePath
           before == SidecarObject(sidecar[p])
           after == SidecarObject(sidecar'[p])
       IN /\ pc = "writeJsonFile"
          /\ \A q \in DOMAIN sidecar : q # p => sidecar'[q] = sidecar[q]
          /\ readJsonFile(sidecar[p]).ok /\ readJsonFile(sidecar'[p]).ok
          /\ Keys(after) = Keys(before) \cup {"dealInfo"}
          /\ Len(after) = Cardinality(Keys(after))
          /\ Get(after, "dealInfo") = DealOf(loc.items[idx].imagePath)
          /\ \A k \in Keys(before) \ {"dealInfo"} : Get(after, k) = Get(before, k)
    ]_vars

\* one pair done on a sidecar that had a subject and no deal record, and
\* one on a sidecar that already had a deal record
C12_Witness ==
  /\ cmd = "extract"
  /\ pc = "Completed"
  /\ args.files = <<PathA, PathB>>
  /\ args.images = <<ImageA, ImageB>>
  /\ SidecarObject(sidecar[PathA]) =
       <<<<"id", Msg(1)>>, <<"subject", <<"H", "i">>>>,
         <<"htmlBody", <<"<", "p", ">">>>>, <<"dealInfo", DealOf(ImageA)>> >>
  /\ SidecarObject(sidecar[PathB]) =
       <<<<"id", Msg(2)>>, <<"dealInfo", DealOf(ImageB)>>,
         <<"htmlBody", <<"<", "p", ">">>>> >>

\* the state right after a get-image item has read its sidecar
JustRead ==
  cmd = "get-image" /\ log # <<>> /\ log[Len(log)].op = "readFile"
ReadObject == readJsonFile(sidecar[log[Len(log)].args]).obj

\* a saved message with a text body and no HTML body
TextOnly(obj) == ~Truthy(obj, "htmlBody") /\ Truthy(obj, "textBody")

\* the text with the characters that open markup replaced by entities
RECURSIVE EscapeHtml(_)
EscapeHtml(text) ==
  IF text = <<>> THEN <<>>
  ELSE LET c == text[1]
           e == CASE c = "<" -> <<"&", "l", "t", ";">>
                  [] c = ">" -> <<"&", "g", "t", ";">>
                  [] c = "&" -> <<"&", "a", "m", "p", ";">>
                  [] OTHER -> <<c>>
       IN e \o EscapeHtml(Tail(text))

InEscapedPre(doc, text) == Contains(doc, PreOpen \o EscapeHtml(text) \o PreClose)

\* the message of the PNG draft that is being rendered
PngItem == cmd = "get-emails" /\ variant = "png" /\ pc = "launch"
                /\ idx <= Len(loc.items)

\* C13 as stated: a message with no HTML body part and a resolvable text
\* part is selected as text, is rendered rather than rejected, and the
\* document handed to the browser holds the text in a preformatted block in
\* escaped form.
C13_Original ==
  /\ (JustRead /\ sidecar[log[Len(log)].args].kind = "json" /\ TextOnly(ReadObject)) =>
       /\ extractRawContent(ReadObject) =
            [content |-> Get(ReadObject, "textBody"), isHtml |-> FALSE]
       /\ pc = "launch"
       /\ InEscapedPre(loc.html, Get(ReadObject, "textBody"))
  /\ PngItem =>
       LET email == loc.items[idx] IN
       (/\ Resolvable(email.htmlBody, email.bodyValues) = <<>>
        /\ Resolvable(email.textBody, email.bodyValues) # <<>>) =>
         InEscapedPre(RenderHtml,
                      ValueOf(Resolvable(email.textBody, email.bodyValues)[1],
                              email.bodyValues))

\* a saved message with no body at all
NoBody(obj) == ~Truthy(obj, "htmlBody") /\ ~Truthy(obj, "textBody")
ReadNoBody ==
  JustRead /\ sidecar[log[Len(log)].args].kind = "json" /\ NoBody(ReadObject)
PngNoBody ==
  /\ PngItem
  /\ Resolvable(loc.items[idx].htmlBody, loc.items[idx].bodyValues) = <<>>
  /\ Resolvable(loc.items[idx].textBody, loc.items[idx].bodyValues) = <<>>

DeclaresDocument(content) ==
  \E k \in 0..Len(content) :
    /\ \A i \in 1..k : content[i] = " "
    /\ \E w \in {<<"<", "!", "d", "o", "c", "t", "y", "p", "e">>,
                 <<"<", "h", "t", "m", "l">>} :
         /\ Len(content) - k >= Len(w)
         /\ \A i \in 1..Len(w) : Lower(content[k + i]) = w[i]

ReadDocument ==
  /\ JustRead /\ variant = "file"
  /\ sidecar[log[Len(log)].args].kind = "json"
  /\ Truthy(ReadObject, "htmlBody")
  /\ DeclaresDocument(Get(ReadObject, "htmlBody"))
PngHtml ==
  PngItem /\ Resolvable(loc.items[idx].htmlBody, loc.items[idx].bodyValues) # <<>>
PngContent ==
  ValueOf(Resolvable(loc.items[idx].htmlBody, loc.items[idx].bodyValues)[1],
          loc.items[idx].bodyValues)

\* C15: when the selected content is HTML that starts, leading whitespace
\* and letter case ignored, with a document or html declaration, the
\* display-HTML step returns the content exactly, and the step applied to
\* its own output returns that output again.
C15_DocumentUnchanged ==
  /\ ReadDocument =>
       /\ loc.html = Get(ReadObject, "htmlBody")
       /\ generateEmailHtml(With(ReadObject, "htmlBody", loc.html)) = loc.html
  /\ (PngHtml /\ DeclaresDocument(PngContent)) =>
       /\ RenderHtml = PngContent
       /\ generateFullHtml([loc.items[idx] EXCEPT
                              !.htmlBody = <<"1">>,
                              !.bodyValues = << <<"1", RenderHtml>> >>])
            = RenderHtml

C15_Witness ==
  /\ ReadDocument /\ pc = "launch"
  /\ loc.html = <<" ", "<", "H", "t", "m", "l", ">", "<", "p", ">">>

\* the mailboxes of a role, in the order of the list
Matches(role) == SelectSeq(loc.boxes, LAMBDA b : b.role = role)

\* what a lookup step must do for this role
LookupStep(role) ==
  IF Matches(role) = <<>>
    THEN /\ pc' = "Failed" /\ exitCode' = 1
         /\ err'.class = "ApiError"
         /\ err'.msg \in {"Could not find inbox folder",
                          "Could not find archive folder"}
         /\ loc' = loc
    ELSE /\ err' = NoError /\ pc' # "Failed"
         /\ (IF role = "inbox" THEN loc'.inbox ELSE loc'.archive)
              = <<Matches(role)[1]>>
         /\ Matches(role)[1] \in Range(mailboxes)

\* C16: the lookup of a mailbox by role fails with the not-found error when
\* no mailbox of the list has the role, and otherwise returns, unchanged,
\* the first mailbox of the list that has the role (the only one when
\* exactly one matches).
C16_FindMailboxByRole ==
  [][/\ pc = "findInbox" => LookupStep("inbox")
     /\ pc = "findArchive" => LookupStep("archive")]_vars

C16_Witness ==
  /\ cmd = "archive" /\ pc = "Failed"
  /\ loc.boxes = <<Box(1, "inbox"), Box(2, "inbox")>>
  /\ loc.inbox = <<Box(1, "inbox")>>
  /\ err = Error("ApiError", "Could not find archive folder")

\* the inbox query of get-emails has been answered, and the inbox holds no
\* message, so that the answer lists no ids
EmptyInbox ==
  /\ cmd = "get-emails" /\ store = {}
  /\ HasOp("Email/query")
  /\ err # Error("ApiError", "Failed to query emails")

\* C17: when the inbox query returns no message ids, get-emails sends no
\* Email/get request, writes no output file, and can only end in Completed
\* with exit code 0.
C17_EmptyInboxCompletes ==
  EmptyInbox =>
    /\ resp.op = "Email/query" /\ resp.ids = <<>>
    /\ ~HasOp("Email/get")
    /\ ~HasOp("writeFile") /\ ~HasOp("screenshot") /\ ~HasOp("launch")
    /\ outFiles = <<>>
    /\ err = NoError
    /\ pc \in {"getEmailDetails", "Completed"}
    /\ pc = "getEmailDetails" => ENABLED GetEmailDetails
    /\ pc = "Completed" => exitCode = 0

C17_Witness ==
  /\ EmptyInbox /\ store = {} /\ variant = "json"
  /\ pc = "Completed" /\ exitCode = 0
  /\ log[Len(log)].op = "Email/query"

BlankOption(o) == IsGiven(o) /\ (\A i \in 1..Len(o[1]) : o[1][i] = " ")
\* a decimal integer literal: an optional sign and then digits only
IsNumeric(s) ==
  LET d == IF s # <<>> /\ s[1] \in {"-", "+"} THEN Tail(s) ELSE s IN
  d # <<>> /\ \A i \in 1..Len(d) : IsDigit(d[i])
IsAll(s) == Len(s) = 3 /\ Lower(s[1]) = "a" /\ Lower(s[2]) = "l" /\ Lower(s[3]) = "l"
NonPositive(s) ==
  IsNumeric(s) /\ (s[1] = "-" \/ \A i \in 1..Len(s) : s[i] \in {"0", "+"})
BadLimit(o) ==
  IsGiven(o) /\ ~IsAll(o[1]) /\ (~IsNumeric(o[1]) \/ NonPositive(o[1]))

\* the command line carries one of the malformed inputs
Malformed ==
  \/ cmd = "archive" /\ (args.ids = <<>> \/ \E i \in 1..Len(args.ids) :
                                              Trim(args.ids[i]) = <<>>)
  \/ cmd \in {"archive", "get-emails"}
       /\ (BlankOption(args.username) \/ BlankOption(args.password))
  \/ cmd = "extract" /\ BlankOption(args.apiKey)
  \/ cmd = "get-emails" /\ BadLimit(args.limit)

\* C18 as stated: a malformed command line (an empty or blank id or no id for
\* archive, a blank username or password, a blank API key, a non-positive
\* or non-numeric limit) aborts the command before any remote request and
\* before any file is read or written.
C18_Original ==
  (Malformed /\ pc # "cli") =>
    /\ pc = "ParseFailed" /\ exitCode = 1
    /\ CountOps(RemoteOps) = 0
    /\ CountOps(FileReadOps \cup {"writeFile", "screenshot"}) = 0
    /\ outFiles = <<>>

\* C19 as stated: execution is strictly sequential: no two file-system,
\* browser or remote operations of a run are in flight at the same time.
C19_Original == loc.inflight <= 1

\* the items of the run are pairwise distinct
DistinctItems ==
  \A i, j \in 1..Len(loc.items) : i # j => loc.items[i] # loc.items[j]

\* C20 as stated: in get-emails and get-image two distinct items never
\* write the same output file, so the number of files a run has produced is
\* the number of items it reports as processed.
C20_Original ==
  (cmd \in {"get-emails", "get-image"} /\ DistinctItems) =>
    /\ \A i, j \in 1..Len(outFiles) : i # j => outFiles[i] # outFiles[j]
    /\ pc = "Completed" => Cardinality(Range(outFiles)) = count

\* a get-emails item has just been written to its sidecar
JustSaved ==
  /\ cmd = "get-emails" /\ variant # "png"
  /\ log # <<>> /\ log[Len(log)].op = "writeFile" /\ ret = "right"

\* the body field the claim describes: the text of the first resolvable
\* part as a JSON string, no field when no part resolves
StatedField(parts, bodyValues) ==
  IF Resolvable(parts, bodyValues) = <<>> THEN <<>>
  ELSE <<JString(ValueOf(Resolvable(parts, bodyValues)[1], bodyValues))>>

SavedEmail == Email(loc.data.id)

\* C21 as stated: in the sidecar get-emails persists, htmlBody is the text
\* of the first HTML part that resolves in bodyValues and is absent when
\* none resolves, and textBody likewise for the text parts.
C21_Original ==
  JustSaved =>
    /\ loc.data.htmlBody = StatedField(SavedEmail.htmlBody, SavedEmail.bodyValues)
    /\ loc.data.textBody = StatedField(SavedEmail.textBody, SavedEmail.bodyValues)

SomeInputMissing ==
  cmd = "get-image" /\ \E i \in 1..Len(args.inputs) : ~Exists(args.inputs[i])

\* C22: get-image checks that every input sidecar exists before the first
\* browser launch: a launch is preceded by an existence check of each input
\* path, and when some input path does not exist the command fails with no
\* browser launched and no PNG written.
C22_ExistenceCheckedUpFront ==
  /\ cmd = "get-image" =>
       \A k \in 1..Len(log) :
         log[k].op = "launch" =>
           \A i \in 1..Len(args.inputs) :
             \E j \in 1..(k - 1) :
               log[j].op = "access" /\ log[j].args = args.inputs[i]
  /\ (SomeInputMissing /\ pc # "cli") =>
       /\ pc \in {"ParseFailed", "Failed"} /\ exitCode = 1
       /\ ~HasOp("launch") /\ ~HasOp("screenshot")
       /\ outFiles = <<>>

C22_Witness ==
  /\ SomeInputMissing /\ pc = "ParseFailed"
  /\ args.inputs = <<PathA, PathB>>
  /\ Exists(PathA) /\ ~Exists(PathB)
  /\ log[1] = Entry("access", PathA) /\ log[2] = Entry("access", PathB)

ArchiveSucceeded == cmd = "archive" /\ pc = "Completed"

\* C23: in a successful archive run the Email/set requests are exactly one
\* per requested id, in the order the ids were given, and each one carries
\* both the removal from the inbox mailbox and the addition to the archive
\* mailbox for that id.
C23_OneMovePerId ==
  ArchiveSucceeded =>
    LET sets == OpsOf(log, {"Email/set"}) IN
    /\ Len(sets) = Len(args.ids)
    /\ \A i \in 1..Len(sets) :
         /\ sets[i].args[1] = args.ids[i]
         /\ sets[i].args[2] = Matches("inbox")[1].id
         /\ sets[i].args[3] = Matches("archive")[1].id

C23_Witness ==
  /\ ArchiveSucceeded
  /\ args.ids = <<Msg(2), Msg(1)>>
  /\ count = 2 /\ moved = {Msg(1), Msg(2)}
  /\ OpsOf(log, {"Email/set"}) =
       <<Entry("Email/set", <<Msg(2), Box(1, "inbox").id, Box(2, "archive").id>>),
         Entry("Email/set", <<Msg(1), Box(1, "inbox").id, Box(2, "archive").id>>)>>

\* the command line has been parsed by a draft whose --output option goes
\* through createDirectoryIfNotExists
OutputChecked ==
  /\ pc # "cli"
  /\ \/ cmd = "get-emails" /\ variant # "imperative"
     \/ cmd = "get-image" /\ variant = "input"

\* C24 as stated: createDirectoryIfNotExists on a path that exists and is
\* not a directory fails with NotADirectoryError and does not call mkdir; on
\* an existing directory it returns the path without calling mkdir.
C24_Original ==
  OutputChecked =>
    /\ args.output = "file" =>
         /\ pc = "ParseFailed"
         /\ ~HasOp("mkdir")
         /\ err.class \in {"NotADirectoryError", "DirectoryCreationFailedError"}
              => err.class = "NotADirectoryError"
    /\ args.output = "dir" =>
         /\ ~HasOp("mkdir")
         /\ loc.outDir = "dir"
         /\ err.class \notin {"NotADirectoryError", "DirectoryCreationFailedError"}

\* the move of an id has failed
MoveFailed == cmd = "archive" /\ err.msg = "Failed to archive email"

MoveFailureState ==
  MoveFailed =>
    LET sets == OpsOf(log, {"Email/set"})
        k == Len(sets)
    IN
    /\ pc = "Failed" /\ exitCode = 1
    /\ k = idx /\ k <= Len(args.ids)
    /\ \A i \in 1..k : sets[i].args[1] = args.ids[i]
    /\ log[Len(log)] = sets[k]
    /\ moved \subseteq {args.ids[i] : i \in 1..(k - 1)}
    /\ count <= k - 1

\* C25: when the move of the k-th id of an archive run fails, the ids moved
\* before it stay moved and no further request is sent (no rollback, and
\* the ids after k are not attempted), and the run ends Failed with exit
\* code 1, the branch that reports no count.
C25_FailedMoveStops ==
  /\ []MoveFailureState
  /\ [][cmd = "archive" => moved \subseteq moved']_vars

C25_Witness ==
  /\ MoveFailed /\ pc = "Failed"
  /\ args.ids = <<Msg(1), Msg(2)>>
  /\ idx = 2 /\ moved = {Msg(1)} /\ count = 1

\* a pair of extract has failed while reading its image, in the call of the
\* generative model, or in parsing the answer
PairFailedBeforeWrite ==
  cmd = "extract" /\ err.class \in {"ImageProcessingError", "GeminiError"}

\* the last pair before position k that names this sidecar
LastPairFor(p, k) ==
  CHOOSE i \in 1..(k - 1) :
    /\ loc.items[i].filePath = p
    /\ \A j \in (i + 1)..(k - 1) : loc.items[j].filePath # p

PairFailureState ==
  PairFailedBeforeWrite =>
    LET writes == OpsOf(log, {"writeFile"}) IN
    /\ pc = "Failed" /\ exitCode = 1
    /\ log[Len(log)].op \in {"readFile", "generateContent"}
    /\ Len(writes) = idx - 1
    /\ \A i \in 1..(idx - 1) :
         LET p == loc.items[i].filePath
             obj == SidecarObject(sidecar[p])
         IN /\ writes[i].args = p
            /\ Has(obj, "dealInfo")
            /\ Get(obj, "dealInfo") = DealOf(loc.items[LastPairFor(p, idx)].imagePath)

\* C26: in extract, the steps of a pair before the write (reading the
\* sidecar and the image, the call of the generative model and the parsing
\* of its answer) change no sidecar, whether they succeed or fail; when one
\* of them fails for the k-th pair the run stops there, the sidecars of the
\* pairs before k hold the deal record written for them and nothing is
\* written for the k-th pair or a later one.
C26_FailedPairLeavesSidecars ==
  /\ []PairFailureState
  /\ [][(cmd = "extract" /\ pc # "writeJsonFile") => sidecar' = sidecar]_vars

C26_Witness ==
  /\ PairFailedBeforeWrite /\ pc = "Failed"
  /\ err = Error("GeminiError", "Failed to parse JSON response")
  /\ args.files = <<PathA, PathB>> /\ idx = 2
  /\ Get(SidecarObject(sidecar[PathA]), "dealInfo") = DealOf(ImageA)
  /\ sidecar[PathB] = DealtSidecar(PathB)

\* a render invocation of get-image has returned
RenderReturned ==
  /\ cmd = "get-image" /\ br.launched
  /\ log[Len(log)].op = "close"
  /\ pc \notin {"closeBrowser", "closeOnError"}

\* C27 as stated: within one render invocation browser.close is called at
\* most once, also when the close call of the success path fails, and the
\* invocation reports success whenever the PNG was captured.
C27_Original ==
  cmd = "get-image" =>
    /\ br.closeCalls <= 1
    /\ (RenderReturned /\ br.captured) => ret = "right"

\* the requests and writes of extract so far follow the positions of the
\* command line
PairedByPosition ==
  cmd = "extract" =>
    LET asked == OpsOf(log, {"generateContent"})
        writes == OpsOf(log, {"writeFile"})
    IN
    /\ \A i \in 1..Len(asked) : asked[i].args = args.images[i]
    /\ \A i \in 1..Len(writes) : writes[i].args = args.files[i]
    /\ Len(writes) <= Len(asked) /\ Len(asked) <= Len(args.images)

\* C28: extract pairs images and sidecars by position: the i-th --image is
\* the i-th one analysed, and a deal record is written only into the sidecar
\* of the position being processed and is the one extracted from the image
\* of that same position.
C28_PairedByPosition ==
  /\ []PairedByPosition
  /\ [][SidecarRewritten =>
          /\ idx <= Len(args.files) /\ idx <= Len(args.images)
          /\ \A p \in Paths : p # args.files[idx] => sidecar'[p] = sidecar[p]
          /\ Get(SidecarObject(sidecar'[args.files[idx]]), "dealInfo")
               = DealOf(args.images[idx])]_vars

C28_Witness ==
  /\ cmd = "extract" /\ pc = "Completed"
  /\ args.images = <<ImageB, ImageA>> /\ args.files = <<PathA, PathB>>
  /\ Get(SidecarObject(sidecar[PathA]), "dealInfo") = DealOf(ImageB)
  /\ Get(SidecarObject(sidecar[PathB]), "dealInfo") = DealOf(ImageA)

\* what one step of the archive loop does to the count, by the answer of
\* the server for the id
CountStep ==
  (cmd = "archive" /\ pc = "archiveEmail") =>
    /\ resp'.op = "Email/set"
    /\ (~resp'.transport /\ resp'.updated) =>
         count' = count + 1 /\ err' = NoError
    /\ (~resp'.transport /\ ~resp'.updated /\ ~resp'.notUpdated) =>
         /\ count' = count /\ err' = NoError /\ pc' # "Failed"
         /\ idx' = idx + 1
    /\ (resp'.transport \/ resp'.notUpdated) =>
         count' = count /\ pc' = "Failed"

\* C29: in archive the count goes up by one exactly for a move that
\* returned true and never exceeds the number of requested ids; a move that
\* returned false leaves the count as it is and does not fail the run, which
\* then can end with exit code 0 and fewer ids moved than requested.
C29_CountsTrueMoves ==
  /\ [][CountStep]_vars
  /\ [](cmd = "archive" =>
          /\ count <= Len(args.ids)
          /\ pc = "archiveEmail" => count <= idx - 1
          /\ ArchiveSucceeded => exitCode = 0 /\ Cardinality(moved) <= count)

C29_Witness ==
  /\ ArchiveSucceeded /\ exitCode = 0
  /\ args.ids = <<Msg(1), Msg(2)>>
  /\ count = 1 /\ moved = {Msg(1)}
  /\ ret = "false"

EndedFailed == pc \in {"Failed", "ParseFailed"}

\* C30: when every external call returns or fails, every run of
\* get-emails, get-image, extract and archive reaches a terminal state,
\* Completed with exit code 0 or Failed with exit code 1, and stays in it.
C30_RunsTerminate ==
  /\ <>Terminal
  /\ [][Terminal => (pc' = pc /\ exitCode' = exitCode)]_vars
  /\ [](/\ pc = "Completed" => exitCode = 0
        /\ EndedFailed => exitCode = 1)

C30_Witness ==
  /\ cmd = "get-image" /\ variant = "input"
  /\ pc = "Completed" /\ exitCode = 0
  /\ Len(args.inputs) = 2 /\ count = 1 /\ loc.swallowed = 1

====
